---------------------------- MODULE Spec2Model ----------------------------
(***************************************************************************)
(* Solafon MCP server (src/src/index.ts): the HTTP gateway apiCall, the    *)
(* envelope builder ok, and the seventeen tool handlers registered with    *)
(* server.tool, as a state machine over tool invocations.                  *)
(*                                                                         *)
(* JavaScript values are tagged records; a text (a response body, a        *)
(* serialized request body, an envelope's text block) is a sequence of     *)
(* lexical tokens, so that JSON.stringify and JSON.parse are computed.     *)
(***************************************************************************)
EXTENDS Integers, Sequences, FiniteSets, TLC

VARIABLES
    env,        \* process.env at startup: SOLAFON_API_URL, SOLAFON_BOT_TOKEN
    API_URL,    \* const API_URL   (index.ts:22)
    BOT_TOKEN,  \* const BOT_TOKEN (index.ts:23)
    calls,      \* invocation id -> the state of that tool invocation
    sent,       \* history: the (base URL, headers) of every request issued
    okData,     \* the argument of a direct use of ok()
    okOut       \* what that use returned

vars == <<env, API_URL, BOT_TOKEN, calls, sent, okData, okOut>>

-----------------------------------------------------------------------------
(* JavaScript values *)

JUndef == [t |-> "undefined"]
JNull == [t |-> "null"]
JBool(b) == [t |-> "boolean", b |-> b]
JNum(n) == [t |-> "number", n |-> n]
JStr(s) == [t |-> "string", s |-> s]
JArr(a) == [t |-> "array", a |-> a]
\* an object: its own keys in insertion order, and their values
JObj(k, v) == [t |-> "object", k |-> k, v |-> v]

EmptyObj == JObj(<<>>, <<>>)

\* ToBoolean: what `if (v)`, `!v` and `a || b` test
Truthy(v) ==
    CASE v.t = "undefined" -> FALSE
      [] v.t = "null" -> FALSE
      [] v.t = "boolean" -> v.b
      [] v.t = "number" -> v.n # 0
      [] v.t = "string" -> v.s # ""
      [] OTHER -> TRUE

\* a || b
OrElse(a, b) == IF Truthy(a) THEN a ELSE b

IndexOf(seq, x) ==
    IF \E j \in 1..Len(seq) : seq[j] = x
    THEN CHOOSE j \in 1..Len(seq) : seq[j] = x
    ELSE 0

\* v.key throws a TypeError when v is null or undefined
PropThrows(v) == v.t \in {"null", "undefined"}

\* v.key otherwise: the own property of an object, undefined for anything else
Prop(v, key) ==
    IF v.t = "object" /\ IndexOf(v.k, key) # 0
    THEN v.v[IndexOf(v.k, key)]
    ELSE JUndef

\* o[key] = val on an object
Put(o, key, val) ==
    IF IndexOf(o.k, key) # 0
    THEN JObj(o.k, [o.v EXCEPT ![IndexOf(o.k, key)] = val])
    ELSE JObj(Append(o.k, key), Append(o.v, val))

Digit(d) ==
    CASE d = 0 -> "0" [] d = 1 -> "1" [] d = 2 -> "2" [] d = 3 -> "3"
      [] d = 4 -> "4" [] d = 5 -> "5" [] d = 6 -> "6" [] d = 7 -> "7"
      [] d = 8 -> "8" [] d = 9 -> "9"

RECURSIVE NatToString(_)
NatToString(n) ==
    IF n < 10 THEN Digit(n) ELSE NatToString(n \div 10) \o Digit(n % 10)

\* Number.prototype.toString of an integer
NumToString(n) == IF n < 0 THEN "-" \o NatToString(-n) ELSE NatToString(n)

\* String(v), as a template literal `${v}` computes it
StringOf(v) ==
    CASE v.t = "string" -> v.s
      [] v.t = "number" -> NumToString(v.n)
      [] v.t = "boolean" -> (IF v.b THEN "true" ELSE "false")
      [] v.t = "null" -> "null"
      [] v.t = "undefined" -> "undefined"
      [] v.t = "array" -> (IF Len(v.a) = 0 THEN "" ELSE "[array]")
      [] OTHER -> "[object Object]"

-----------------------------------------------------------------------------
(* Texts as token sequences; JSON.stringify and JSON.parse *)

Punct(c) == [k |-> "punct", c |-> c]
Lit(w) == [k |-> "lit", w |-> w]
NumTok(n) == [k |-> "num", n |-> n]
StrTok(s) == [k |-> "str", s |-> s]
\* a line break followed by n spaces
Newline(n) == [k |-> "ws", n |-> n]
\* the single space JSON.stringify puts after a colon when indenting
Space == [k |-> "sp"]
\* characters that begin no JSON token
Junk(s) == [k |-> "junk", s |-> s]

Break(gap, ind) == IF gap = 0 THEN <<>> ELSE <<Newline(ind)>>

RECURSIVE Serialize(_, _, _), SerializeItems(_, _, _, _), SerializeMembers(_, _, _, _, _)

\* the tokens of value v at indentation ind; inside an array undefined is null
Serialize(v, gap, ind) ==
    CASE v.t = "null" -> <<Lit("null")>>
      [] v.t = "undefined" -> <<Lit("null")>>
      [] v.t = "boolean" -> <<Lit(IF v.b THEN "true" ELSE "false")>>
      [] v.t = "number" -> <<NumTok(v.n)>>
      [] v.t = "string" -> <<StrTok(v.s)>>
      [] v.t = "array" ->
            IF Len(v.a) = 0
            THEN <<Punct("["), Punct("]")>>
            ELSE <<Punct("[")>> \o Break(gap, ind + gap)
                 \o SerializeItems(v.a, 1, gap, ind + gap)
                 \o Break(gap, ind) \o <<Punct("]")>>
      [] OTHER ->
            LET keep == SelectSeq([j \in 1..Len(v.k) |-> j],
                                  LAMBDA j : v.v[j].t # "undefined")
            IN  IF Len(keep) = 0
                THEN <<Punct("{"), Punct("}")>>
                ELSE <<Punct("{")>> \o Break(gap, ind + gap)
                     \o SerializeMembers(v, keep, 1, gap, ind + gap)
                     \o Break(gap, ind) \o <<Punct("}")>>

SerializeItems(a, j, gap, ind) ==
    IF j > Len(a) THEN <<>>
    ELSE Serialize(a[j], gap, ind)
         \o (IF j < Len(a) THEN <<Punct(",")>> \o Break(gap, ind) ELSE <<>>)
         \o SerializeItems(a, j + 1, gap, ind)

\* an object's members: a property whose value is undefined is left out
SerializeMembers(o, keep, j, gap, ind) ==
    IF j > Len(keep) THEN <<>>
    ELSE <<StrTok(o.k[keep[j]]), Punct(":")>>
         \o (IF gap = 0 THEN <<>> ELSE <<Space>>)
         \o Serialize(o.v[keep[j]], gap, ind)
         \o (IF j < Len(keep) THEN <<Punct(",")>> \o Break(gap, ind) ELSE <<>>)
         \o SerializeMembers(o, keep, j + 1, gap, ind)

\* JSON.stringify(v, null, gap) for a v that is not undefined
JSONstringify(v, gap) == Serialize(v, gap, 0)

NoParse == [ok |-> FALSE]
Parsed(val, rest) == [ok |-> TRUE, val |-> val, rest |-> rest]

IsPunct(ts, c) == Len(ts) > 0 /\ ts[1].k = "punct" /\ ts[1].c = c

RECURSIVE ParseValue(_), ParseItems(_, _), ParseMembers(_, _)

ParseValue(ts) ==
    IF Len(ts) = 0 THEN NoParse
    ELSE LET tk == ts[1]
             rest == Tail(ts)
         IN  CASE tk.k = "lit" ->
                    (CASE tk.w = "null" -> Parsed(JNull, rest)
                       [] tk.w = "true" -> Parsed(JBool(TRUE), rest)
                       [] tk.w = "false" -> Parsed(JBool(FALSE), rest)
                       [] OTHER -> NoParse)
               [] tk.k = "num" -> Parsed(JNum(tk.n), rest)
               [] tk.k = "str" -> Parsed(JStr(tk.s), rest)
               [] tk.k = "punct" /\ tk.c = "[" ->
                    IF IsPunct(rest, "]")
                    THEN Parsed(JArr(<<>>), Tail(rest))
                    ELSE ParseItems(rest, <<>>)
               [] tk.k = "punct" /\ tk.c = "{" ->
                    IF IsPunct(rest, "}")
                    THEN Parsed(EmptyObj, Tail(rest))
                    ELSE ParseMembers(rest, EmptyObj)
               [] OTHER -> NoParse

ParseItems(ts, acc) ==
    LET r == ParseValue(ts)
    IN  IF ~r.ok THEN NoParse
        ELSE IF IsPunct(r.rest, ",") THEN ParseItems(Tail(r.rest), Append(acc, r.val))
        ELSE IF IsPunct(r.rest, "]") THEN Parsed(JArr(Append(acc, r.val)), Tail(r.rest))
        ELSE NoParse

ParseMembers(ts, acc) ==
    IF Len(ts) < 2 \/ ts[1].k # "str" \/ ~IsPunct(Tail(ts), ":") THEN NoParse
    ELSE LET r == ParseValue(Tail(Tail(ts)))
         IN  IF ~r.ok THEN NoParse
             ELSE IF IsPunct(r.rest, ",")
                  THEN ParseMembers(Tail(r.rest), Put(acc, ts[1].s, r.val))
             ELSE IF IsPunct(r.rest, "}")
                  THEN Parsed(Put(acc, ts[1].s, r.val), Tail(r.rest))
             ELSE NoParse

\* JSON.parse(text): white space between tokens is skipped; one value, then the end
JSONparse(text) ==
    LET ts == SelectSeq(text, LAMBDA tk : tk.k \notin {"ws", "sp"})
        r == ParseValue(ts)
    IN  IF r.ok /\ Len(r.rest) = 0 THEN [ok |-> TRUE, val |-> r.val] ELSE NoParse

RECURSIVE Spaces(_)
Spaces(n) == IF n = 0 THEN "" ELSE " " \o Spaces(n - 1)

Lexeme(tk) ==
    CASE tk.k = "punct" -> tk.c
      [] tk.k = "lit" -> tk.w
      [] tk.k = "num" -> NumToString(tk.n)
      [] tk.k = "str" -> "\"" \o tk.s \o "\""
      [] tk.k = "ws" -> "\n" \o Spaces(tk.n)
      [] tk.k = "sp" -> " "
      [] OTHER -> tk.s

\* the text as one string, as res.text() hands it to the fallback object
RECURSIVE TextString(_)
TextString(text) ==
    IF Len(text) = 0 THEN "" ELSE Lexeme(text[1]) \o TextString(Tail(text))

-----------------------------------------------------------------------------
(* Input schemas (zod): what each descriptor accepts and what parsing yields *)

UUIDs == {"11111111-1111-1111-1111-111111111111", "22222222-2222-2222-2222-222222222222"}
URLs == {"https://example.com/hook", "https://example.com/cat.png"}

\* z.string() with .uuid() or .url(): the format check, on the strings of the model
HasFormat(s, fmt) ==
    CASE fmt = "uuid" -> s \in UUIDs
      [] fmt = "url" -> s \in URLs
      [] OTHER -> TRUE

ZString(fmt) == [z |-> "string", fmt |-> fmt, opt |-> FALSE, def |-> JUndef]
ZEnum(vals) == [z |-> "enum", vals |-> vals, opt |-> FALSE, def |-> JUndef]
\* z.number().int().min(lo), with .max(hi) when bounded
ZInt(lo, bounded, hi) ==
    [z |-> "int", lo |-> lo, bounded |-> bounded, hi |-> hi, opt |-> FALSE, def |-> JUndef]
ZArray(elem) == [z |-> "array", elem |-> elem, opt |-> FALSE, def |-> JUndef]
ZObject(shape) == [z |-> "object", shape |-> shape, opt |-> FALSE, def |-> JUndef]
Optional(d) == [d EXCEPT !.opt = TRUE]
Default(d, v) == [d EXCEPT !.def = v]
Field(name, d) == [name |-> name, d |-> d]

RECURSIVE Accepts(_, _)
\* safeParse(...).success
Accepts(d, v) ==
    IF v.t = "undefined" THEN d.opt \/ d.def.t # "undefined"
    ELSE CASE d.z = "string" -> v.t = "string" /\ HasFormat(v.s, d.fmt)
           [] d.z = "enum" -> v.t = "string" /\ v.s \in d.vals
           [] d.z = "int" -> /\ v.t = "number"
                             /\ v.n >= d.lo
                             /\ (d.bounded => v.n <= d.hi)
           [] d.z = "array" -> /\ v.t = "array"
                               /\ \A j \in 1..Len(v.a) : Accepts(d.elem, v.a[j])
           [] OTHER -> /\ v.t = "object"
                       /\ \A j \in 1..Len(d.shape) :
                              Accepts(d.shape[j].d, Prop(v, d.shape[j].name))

RECURSIVE Output(_, _), OutputShape(_, _, _)
\* safeParse(...).data of an accepted value: defaults filled in, and of an object
\* the declared keys only (z.object strips the keys it does not declare)
Output(d, v) ==
    IF v.t = "undefined" THEN d.def
    ELSE CASE d.z = "array" -> JArr([j \in 1..Len(v.a) |-> Output(d.elem, v.a[j])])
           [] d.z = "object" -> OutputShape(d.shape, 1, v)
           [] OTHER -> v

OutputShape(shape, j, v) ==
    IF j > Len(shape) THEN EmptyObj
    ELSE LET out == Output(shape[j].d, Prop(v, shape[j].name))
             rest == OutputShape(shape, j + 1, v)
         IN  IF out.t = "undefined" THEN rest
             ELSE JObj(<<shape[j].name>> \o rest.k, <<out>> \o rest.v)

Actions == {"callback", "url", "webApp"}
MessageTypes == {"text", "image", "carousel"}

\* the button object of send_message, edit_message, set_welcome_message and cards
ButtonSchema ==
    ZObject(<< Field("id", ZString("any")),
               Field("text", ZString("any")),
               Field("action", ZEnum(Actions)),
               Field("payload", Optional(ZString("any"))),
               Field("url", Optional(ZString("any"))) >>)

CardSchema ==
    ZObject(<< Field("id", ZString("any")),
               Field("title", ZString("any")),
               Field("subtitle", Optional(ZString("any"))),
               Field("imageUrl", Optional(ZString("any"))),
               Field("buttons", Optional(ZArray(ButtonSchema))) >>)

Tools ==
    { "get_bot_info", "send_message", "edit_message", "delete_message",
      "list_conversations", "get_conversation_messages", "get_user",
      "set_webhook", "set_welcome_message", "get_wallet_balance",
      "get_token_list", "get_token_prices", "get_transaction_history",
      "get_transaction_status", "get_latest_blockhash", "send_transaction",
      "simulate_transaction" }

\* the tools whose handler awaits apiCall twice
TwoStep == {"set_webhook", "set_welcome_message"}

\* mutant: .max(100) left out
ListConversationsLimitNoMax == Default(ZInt(1, FALSE, 100), JNum(20))
\* list_conversations.limit
ListConversationsLimit == Default(ZInt(1, TRUE, 100), JNum(20))
\* mutant: .default(50), the default of get_conversation_messages
TransactionHistoryLimit50 == Default(ZInt(1, TRUE, 50), JNum(50))
\* get_transaction_history.limit
TransactionHistoryLimit == Default(ZInt(1, TRUE, 50), JNum(20))

\* the third argument of server.tool(name, description, shape, handler)
Shape(tool) ==
    CASE tool = "send_message" ->
            << Field("conversationId", ZString("uuid")),
               Field("type", Default(ZEnum(MessageTypes), JStr("text"))),
               Field("text", Optional(ZString("any"))),
               Field("imageUrl", Optional(ZString("url"))),
               Field("buttons", Optional(ZArray(ButtonSchema))),
               Field("cards", Optional(ZArray(CardSchema))) >>
      [] tool = "edit_message" ->
            << Field("messageId", ZString("uuid")),
               Field("type", Default(ZEnum(MessageTypes), JStr("text"))),
               Field("text", Optional(ZString("any"))),
               Field("buttons", Optional(ZArray(ButtonSchema))) >>
      [] tool = "delete_message" -> << Field("messageId", ZString("uuid")) >>
      [] tool = "list_conversations" ->
            << Field("limit", ListConversationsLimit),
               Field("offset", Default(ZInt(0, FALSE, 0), JNum(0))) >>
      [] tool = "get_conversation_messages" ->
            << Field("conversationId", ZString("uuid")),
               Field("limit", Default(ZInt(1, TRUE, 100), JNum(50))),
               Field("before", Optional(ZString("uuid"))) >>
      [] tool = "get_user" -> << Field("userId", ZString("uuid")) >>
      [] tool = "set_webhook" ->
            << Field("url", ZString("url")),
               Field("events", Optional(ZArray(ZString("any")))) >>
      [] tool = "set_welcome_message" ->
            << Field("text", ZString("any")),
               Field("buttons", Optional(ZArray(ButtonSchema))) >>
      [] tool = "get_wallet_balance" -> << Field("address", ZString("any")) >>
      [] tool = "get_token_prices" -> << Field("mints", Optional(ZString("any"))) >>
      [] tool = "get_transaction_history" ->
            << Field("address", ZString("any")),
               Field("limit", TransactionHistoryLimit),
               Field("before", Optional(ZString("any"))) >>
      [] tool = "get_transaction_status" -> << Field("signature", ZString("any")) >>
      [] tool = "send_transaction" -> << Field("signedTransaction", ZString("any")) >>
      [] tool = "simulate_transaction" -> << Field("transaction", ZString("any")) >>
      [] OTHER -> << >>

\* the validation server.tool puts in front of the handler
Validates(tool, raw) == Accepts(ZObject(Shape(tool)), raw)
\* the args the handler is called with
ParseArgs(tool, raw) == Output(ZObject(Shape(tool)), raw)

-----------------------------------------------------------------------------
(* The HTTP gateway and the envelope builder *)

DefaultApiUrl == "https://api.solafon.com"

\* process.env.SOLAFON_API_URL || "https://api.solafon.com"
ApiUrlOf(e) == OrElse(e.SOLAFON_API_URL, JStr(DefaultApiUrl)).s
\* process.env.SOLAFON_BOT_TOKEN || ""
BotTokenOf(e) == OrElse(e.SOLAFON_BOT_TOKEN, JStr("")).s

\* mutant: every entry is set, the empty ones too
SearchParamsKeepEmpty(query) ==
    IF ~Truthy(query) THEN <<>>
    ELSE [j \in 1..Len(query.k) |-> [k |-> query.k[j], v |-> query.v[j].s]]

\* for (const [k, v] of Object.entries(query)) if (v) url.searchParams.set(k, v)
SearchParams(query) ==
    IF ~Truthy(query) THEN <<>>
    ELSE LET keep == SelectSeq([j \in 1..Len(query.k) |-> j],
                               LAMBDA j : Truthy(query.v[j]))
         IN  [j \in 1..Len(keep) |-> [k |-> query.k[keep[j]], v |-> query.v[keep[j]].s]]

\* mutant: the token header is attached whether or not a token is configured
HeadersAlwaysToken ==
    ("Content-Type" :> "application/json") @@ ("X-Bot-Token" :> BOT_TOKEN)

\* the headers of every request
Headers ==
    IF BOT_TOKEN # ""
    THEN ("Content-Type" :> "application/json") @@ ("X-Bot-Token" :> BOT_TOKEN)
    ELSE ("Content-Type" :> "application/json")

\* body ? JSON.stringify(body) : undefined
RequestBody(body) ==
    IF Truthy(body) THEN [present |-> TRUE, text |-> JSONstringify(body, 0)]
    ELSE [present |-> FALSE]

\* the arguments of one apiCall(method, path, body?, query?)
Call(method, path, body, query) ==
    [method |-> method, path |-> path, body |-> body, query |-> query]

\* apiCall up to its fetch: the request put on the wire
apiCallRequest(c) ==
    [ method |-> c.method,
      base |-> API_URL,
      path |-> c.path,
      search |-> SearchParams(c.query),
      headers |-> Headers,
      body |-> RequestBody(c.body) ]

\* mutant: the fallback object loses the raw text
apiCallResultStatusOnly(status, text) ==
    LET p == JSONparse(text)
    IN  IF p.ok THEN p.val ELSE JObj(<<"status">>, <<JNum(status)>>)

\* apiCall after its fetch: JSON.parse(text), or the fallback object
apiCallResult(status, text) ==
    LET p == JSONparse(text)
    IN  IF p.ok THEN p.val
        ELSE JObj(<<"status", "body">>, <<JNum(status), JStr(TextString(text))>>)

\* mutant: String(data) in place of JSON.stringify(data, null, 2)
okString(data) == [content |-> << [type |-> "text", text |-> <<Junk(StringOf(data))>>] >>]

\* ok(data)
ok(data) == [content |-> << [type |-> "text", text |-> JSONstringify(data, 2)] >>]

-----------------------------------------------------------------------------
(* The tool handlers: each runs to its next await, its return or its throw *)

Await(c) == [kind |-> "await", call |-> c]
Return(envelope) == [kind |-> "return", envelope |-> envelope]
Throw(error) == [kind |-> "throw", error |-> error]

\* if (v) o.key = v
PutIf(o, key, v) == IF Truthy(v) THEN Put(o, key, v) ELSE o

\* n.toString() of a number argument
NumberString(v) == JStr(NumToString(v.n))

get_bot_info(args) == Call("GET", "/api/bot/me", JUndef, JUndef)

\* mutant: content.text is assigned without the `if (args.text)`
send_message_text_always(args) ==
    LET content ==
            PutIf(PutIf(PutIf(Put(JObj(<<"type">>, <<Prop(args, "type")>>),
                                  "text", Prop(args, "text")),
                              "imageUrl", Prop(args, "imageUrl")),
                        "buttons", Prop(args, "buttons")),
                  "cards", Prop(args, "cards"))
    IN  Call("POST", "/api/bot/messages",
             JObj(<<"conversationId", "content">>,
                  <<Prop(args, "conversationId"), content>>),
             JUndef)

send_message(args) ==
    LET content ==
            PutIf(PutIf(PutIf(PutIf(JObj(<<"type">>, <<Prop(args, "type")>>),
                                    "text", Prop(args, "text")),
                              "imageUrl", Prop(args, "imageUrl")),
                        "buttons", Prop(args, "buttons")),
                  "cards", Prop(args, "cards"))
    IN  Call("POST", "/api/bot/messages",
             JObj(<<"conversationId", "content">>,
                  <<Prop(args, "conversationId"), content>>),
             JUndef)

edit_message(args) ==
    LET content ==
            PutIf(PutIf(JObj(<<"type">>, <<Prop(args, "type")>>),
                        "text", Prop(args, "text")),
                  "buttons", Prop(args, "buttons"))
    IN  Call("PATCH", "/api/bot/messages/" \o StringOf(Prop(args, "messageId")),
             JObj(<<"content">>, <<content>>), JUndef)

delete_message(args) ==
    Call("DELETE", "/api/bot/messages/" \o StringOf(Prop(args, "messageId")),
         JUndef, JUndef)

list_conversations(args) ==
    Call("GET", "/api/bot/conversations", JUndef,
         JObj(<<"limit", "offset">>,
              <<NumberString(Prop(args, "limit")), NumberString(Prop(args, "offset"))>>))

get_conversation_messages(args) ==
    LET query == PutIf(JObj(<<"limit">>, <<NumberString(Prop(args, "limit"))>>),
                       "before", Prop(args, "before"))
    IN  Call("GET",
             "/api/bot/conversations/" \o StringOf(Prop(args, "conversationId"))
                 \o "/messages",
             JUndef, query)

get_user(args) ==
    Call("GET", "/api/bot/users/" \o StringOf(Prop(args, "userId")), JUndef, JUndef)

\* both two-step handlers begin with apiCall("GET", "/api/bot/me")
identity_lookup(args) == Call("GET", "/api/bot/me", JUndef, JUndef)

\* set_webhook from the lookup's result on
set_webhook(args, botInfo) ==
    IF PropThrows(botInfo) THEN Throw("TypeError")
    ELSE LET appId == Prop(botInfo, "id")
         IN  IF ~Truthy(appId)
             THEN Return(ok(JObj(<<"error">>,
                      <<JStr("Could not determine app ID. Check your bot token.")>>)))
             ELSE Await(Call("PUT",
                             "/api/developer/apps/" \o StringOf(appId) \o "/webhook",
                             JObj(<<"url", "events">>,
                                  <<Prop(args, "url"), Prop(args, "events")>>),
                             JUndef))

\* set_welcome_message from the lookup's result on
set_welcome_message(args, botInfo) ==
    IF PropThrows(botInfo) THEN Throw("TypeError")
    ELSE LET appId == Prop(botInfo, "id")
             content == PutIf(JObj(<<"type", "text">>, <<JStr("text"), Prop(args, "text")>>),
                              "buttons", Prop(args, "buttons"))
         IN  IF ~Truthy(appId)
             THEN Return(ok(JObj(<<"error">>, <<JStr("Could not determine app ID.")>>)))
             ELSE Await(Call("PUT",
                             "/api/developer/apps/" \o StringOf(appId)
                                 \o "/welcome-message",
                             JObj(<<"content">>, <<content>>),
                             JUndef))

get_wallet_balance(args) ==
    Call("GET", "/api/wallet/balance", JUndef,
         JObj(<<"address">>, <<Prop(args, "address")>>))

get_token_list(args) == Call("GET", "/api/wallet/tokens", JUndef, JUndef)

get_token_prices(args) ==
    Call("GET", "/api/wallet/prices", JUndef,
         JObj(<<"mints">>, <<OrElse(Prop(args, "mints"), JStr("all"))>>))

get_transaction_history(args) ==
    LET query == PutIf(JObj(<<"address", "limit">>,
                            <<Prop(args, "address"), NumberString(Prop(args, "limit"))>>),
                       "before", Prop(args, "before"))
    IN  Call("GET", "/api/wallet/transactions", JUndef, query)

get_transaction_status(args) ==
    Call("GET", "/api/wallet/status", JUndef,
         JObj(<<"signature">>, <<Prop(args, "signature")>>))

get_latest_blockhash(args) == Call("GET", "/api/wallet/blockhash", JUndef, JUndef)

send_transaction(args) ==
    Call("POST", "/api/wallet/send",
         JObj(<<"signedTransaction">>, <<Prop(args, "signedTransaction")>>), JUndef)

simulate_transaction(args) ==
    Call("POST", "/api/wallet/simulate",
         JObj(<<"transaction">>, <<Prop(args, "transaction")>>), JUndef)

\* the handler of `tool` from its start to its first await
HandlerStart(tool, args) ==
    Await(CASE tool = "get_bot_info" -> get_bot_info(args)
            [] tool = "send_message" -> send_message(args)
            [] tool = "edit_message" -> edit_message(args)
            [] tool = "delete_message" -> delete_message(args)
            [] tool = "list_conversations" -> list_conversations(args)
            [] tool = "get_conversation_messages" -> get_conversation_messages(args)
            [] tool = "get_user" -> get_user(args)
            [] tool = "set_webhook" -> identity_lookup(args)
            [] tool = "set_welcome_message" -> identity_lookup(args)
            [] tool = "get_wallet_balance" -> get_wallet_balance(args)
            [] tool = "get_token_list" -> get_token_list(args)
            [] tool = "get_token_prices" -> get_token_prices(args)
            [] tool = "get_transaction_history" -> get_transaction_history(args)
            [] tool = "get_transaction_status" -> get_transaction_status(args)
            [] tool = "get_latest_blockhash" -> get_latest_blockhash(args)
            [] tool = "send_transaction" -> send_transaction(args)
            [] OTHER -> simulate_transaction(args))

\* mutant: the single-step handlers end without their `return ok(result)`
HandlerResumeNoReturn(tool, args, step, result) ==
    IF tool = "set_webhook" /\ step = 1 THEN set_webhook(args, result)
    ELSE IF tool = "set_welcome_message" /\ step = 1 THEN set_welcome_message(args, result)
    ELSE Return(JUndef)

\* the handler from the result of its awaited apiCall number `step` on
HandlerResume(tool, args, step, result) ==
    IF tool = "set_webhook" /\ step = 1 THEN set_webhook(args, result)
    ELSE IF tool = "set_welcome_message" /\ step = 1 THEN set_welcome_message(args, result)
    ELSE Return(ok(result))

\* mutant: a failed first call is issued again
HandlerRetry(tool, args, step) ==
    IF step = 1 THEN HandlerStart(tool, args) ELSE Throw("fetch failed")

\* the handler when its awaited apiCall rejects: nothing catches, the handler rejects
HandlerReject(tool, args, step) == Throw("fetch failed")

-----------------------------------------------------------------------------
(* The inputs: the environment, the arguments hosts send, the downstream's answers *)

\* the longest array among the arguments and the probed JSON values
MaxItems == 2

Arrays(pool) == {JArr(a) : a \in UNION {[1..n -> pool] : n \in 0..MaxItems}}

\* an object of the keys, in this order, whose value in r is not undefined
MkObj(keys, r) ==
    LET keep == SelectSeq(keys, LAMBDA k : r[k].t # "undefined")
    IN  JObj(keep, [j \in 1..Len(keep) |-> r[keep[j]]])

\* the token unset, set but empty, and set; the base URL unset and set
EnvChoices ==
    { [SOLAFON_API_URL |-> JUndef, SOLAFON_BOT_TOKEN |-> JUndef],
      [SOLAFON_API_URL |-> JStr("http://localhost:8080"), SOLAFON_BOT_TOKEN |-> JStr("")],
      [SOLAFON_API_URL |-> JUndef, SOLAFON_BOT_TOKEN |-> JStr("bot-token-1")],
      [SOLAFON_API_URL |-> JStr("http://localhost:8080"),
       SOLAFON_BOT_TOKEN |-> JStr("bot-token-1")] }

GoodButton ==
    JObj(<<"id", "text", "action", "payload">>,
         <<JStr("help"), JStr("Help"), JStr("callback"), JStr("show_help")>>)
\* a button carrying a key the schema does not declare
StyledButton ==
    JObj(<<"id", "text", "action", "style">>,
         <<JStr("web"), JStr("Open"), JStr("url"), JStr("primary")>>)
\* a button whose action is outside the enum
BadButton ==
    JObj(<<"id", "text", "action">>, <<JStr("x"), JStr("X"), JStr("submit")>>)
GoodCard ==
    JObj(<<"id", "title", "buttons">>,
         <<JStr("c1"), JStr("Card"), JArr(<<GoodButton>>)>>)

ButtonArrays == {JUndef, JArr(<<BadButton>>)} \cup Arrays({GoodButton, StyledButton})
IdProbe == {JUndef, JStr("11111111-1111-1111-1111-111111111111"), JStr("abc")}
TypeProbe == {JUndef, JStr("image"), JStr("video")}
TextProbe == {JUndef, JStr(""), JStr("hi")}
UrlProbe == {JUndef, JStr("https://example.com/hook"), JStr("not a url")}

\* the argument objects a host sends to `tool`
RawArgs(tool) ==
    CASE tool = "send_message" ->
            { MkObj(<<"conversationId", "type", "text", "imageUrl", "buttons", "cards">>, r) :
                r \in [ conversationId : IdProbe, type : TypeProbe, text : TextProbe,
                        imageUrl : UrlProbe, buttons : ButtonArrays,
                        cards : {JUndef, JArr(<<GoodCard>>)} ] }
      [] tool = "edit_message" ->
            { MkObj(<<"messageId", "type", "text", "imageUrl", "buttons">>, r) :
                r \in [ messageId : IdProbe, type : TypeProbe, text : TextProbe,
                        imageUrl : {JUndef, JStr("https://example.com/cat.png")},
                        buttons : ButtonArrays ] }
      [] tool = "delete_message" ->
            { MkObj(<<"messageId">>, r) : r \in [messageId : IdProbe] }
      [] tool = "list_conversations" ->
            { MkObj(<<"limit", "offset">>, r) :
                r \in [ limit : {JUndef, JNum(0), JNum(1), JNum(100), JNum(101)},
                        offset : {JUndef, JNum(-1), JNum(0), JNum(40)} ] }
      [] tool = "get_conversation_messages" ->
            { MkObj(<<"conversationId", "limit", "before">>, r) :
                r \in [ conversationId : IdProbe,
                        limit : {JUndef, JNum(0), JNum(100), JNum(101)},
                        before : {JUndef, JStr("22222222-2222-2222-2222-222222222222"),
                                  JStr("abc")} ] }
      [] tool = "get_user" -> { MkObj(<<"userId">>, r) : r \in [userId : IdProbe] }
      [] tool = "set_webhook" ->
            { MkObj(<<"url", "events">>, r) :
                r \in [ url : UrlProbe,
                        events : {JUndef} \cup Arrays({JStr("message")}) ] }
      [] tool = "set_welcome_message" ->
            { MkObj(<<"text", "buttons">>, r) :
                r \in [ text : {JUndef, JStr(""), JStr("Welcome")},
                        buttons : ButtonArrays ] }
      [] tool = "get_wallet_balance" ->
            { MkObj(<<"address">>, r) :
                r \in [address : {JUndef, JStr(""), JStr("7xKXtg2C")}] }
      [] tool = "get_token_prices" ->
            { MkObj(<<"mints">>, r) :
                r \in [mints : {JUndef, JStr(""), JStr("all"), JStr("So111,EPjF")}] }
      [] tool = "get_transaction_history" ->
            { MkObj(<<"address", "limit", "before">>, r) :
                r \in [ address : {JUndef, JStr(""), JStr("7xKXtg2C")},
                        limit : {JUndef, JNum(0), JNum(1), JNum(50), JNum(51)},
                        before : {JUndef, JStr(""), JStr("5sig")} ] }
      [] tool = "get_transaction_status" ->
            { MkObj(<<"signature">>, r) :
                r \in [signature : {JUndef, JStr(""), JStr("5sig")}] }
      [] tool = "send_transaction" ->
            { MkObj(<<"signedTransaction">>, r) :
                r \in [signedTransaction : {JUndef, JStr("AQID")}] }
      [] tool = "simulate_transaction" ->
            { MkObj(<<"transaction">>, r) :
                r \in [transaction : {JUndef, JStr("AQID")}] }
      [] OTHER -> {EmptyObj}

Statuses == {200, 404, 500}

\* response bodies: JSON with a usable id, with a falsy id, without an id, the JSON
\* null, a JSON array, and three texts JSON.parse rejects
ResponseTexts ==
    { JSONstringify(JObj(<<"id", "name">>, <<JStr("app-1"), JStr("Echo")>>), 0),
      JSONstringify(JObj(<<"id">>, <<JNum(7)>>), 2),
      JSONstringify(JObj(<<"id">>, <<JStr("")>>), 0),
      JSONstringify(JObj(<<"error">>, <<JStr("unauthorized")>>), 0),
      JSONstringify(JNull, 0),
      JSONstringify(JArr(<<JNum(1)>>), 0),
      << >>,
      << Junk("Bad Gateway") >>,
      << Punct("{"), StrTok("id"), Punct(":") >> }

\* the JSON values ok() is probed with: atoms, arrays and objects of atoms, and
\* those wrapped once more in an array or under a key
KeyLists == UNION {{k \in [1..n -> {"id", "body"}] : \A a, b \in 1..n : a # b => k[a] # k[b]}
                   : n \in 0..MaxItems}
Atoms == {JNull, JBool(TRUE), JBool(FALSE), JNum(0), JNum(-7), JStr(""), JStr("null")}
Flat ==
    Atoms \cup Arrays(Atoms)
          \cup UNION {{JObj(k, v) : v \in [1..Len(k) -> Atoms]} : k \in KeyLists}
JsonValues ==
    Flat \cup {JArr(<<v>>) : v \in Flat}
         \cup {JObj(<<"status", "body">>, <<JNum(200), v>>) : v \in Flat}

-----------------------------------------------------------------------------
(* The state machine *)

Ids == {1}

IdleCall ==
    [ pc |-> "idle", tool |-> "", raw |-> JUndef, args |-> JUndef,
      reqs |-> <<>>, resps |-> <<>>, outcome |-> [kind |-> "none"] ]

NotCalled == [content |-> <<>>]

Init ==
    /\ env \in EnvChoices
    /\ API_URL = ApiUrlOf(env)
    /\ BOT_TOKEN = BotTokenOf(env)
    /\ calls = [i \in Ids |-> IdleCall]
    /\ sent = {}
    /\ okData = JUndef
    /\ okOut = NotCalled

Settled(c) == c.pc \in {"returned", "threw", "rejected"}

\* the call after its handler ran to `k` (an await, a return or a throw)
Advance(c, k) ==
    CASE k.kind = "await" ->
            [c EXCEPT !.pc = "awaiting", !.reqs = Append(@, apiCallRequest(k.call))]
      [] k.kind = "return" ->
            [c EXCEPT !.pc = "returned",
                      !.outcome = [kind |-> "envelope", envelope |-> k.envelope]]
      [] OTHER ->
            [c EXCEPT !.pc = "threw", !.outcome = [kind |-> "throw", error |-> k.error]]

Wire(c) == {[base |-> c.reqs[j].base, headers |-> c.reqs[j].headers] : j \in 1..Len(c.reqs)}

\* a tools/call whose arguments the schema rejects: the handler never runs
Reject(i) ==
    /\ calls[i].pc = "idle"
    /\ \E tool \in Tools : \E raw \in RawArgs(tool) :
          /\ ~Validates(tool, raw)
          /\ calls' = [calls EXCEPT ![i] =
                [IdleCall EXCEPT !.pc = "rejected", !.tool = tool, !.raw = raw,
                                 !.outcome = [kind |-> "invalid"]]]
    /\ UNCHANGED <<env, API_URL, BOT_TOKEN, sent, okData, okOut>>

\* a tools/call whose arguments the schema accepts: the handler runs to its first await
Invoke(i) ==
    /\ calls[i].pc = "idle"
    /\ \E tool \in Tools : \E raw \in RawArgs(tool) :
          /\ Validates(tool, raw)
          /\ LET args == ParseArgs(tool, raw)
                 c == Advance([IdleCall EXCEPT !.tool = tool, !.raw = raw, !.args = args],
                              HandlerStart(tool, args))
             IN  /\ calls' = [calls EXCEPT ![i] = c]
                 /\ sent' = sent \cup Wire(c)
    /\ UNCHANGED <<env, API_URL, BOT_TOKEN, okData, okOut>>

\* the awaited fetch resolves with a response of any status and body
Respond(i) ==
    /\ calls[i].pc = "awaiting"
    /\ \E status \in Statuses : \E text \in ResponseTexts :
          LET c0 == calls[i]
              c1 == [c0 EXCEPT !.resps = Append(@, [kind |-> "response",
                                                    status |-> status, text |-> text])]
              c == Advance(c1, HandlerResume(c0.tool, c0.args, Len(c0.reqs),
                                             apiCallResult(status, text)))
          IN  /\ calls' = [calls EXCEPT ![i] = c]
              /\ sent' = sent \cup Wire(c)
    /\ UNCHANGED <<env, API_URL, BOT_TOKEN, okData, okOut>>

\* the awaited fetch rejects: DNS, connection refused, reset
NetworkFailure(i) ==
    /\ calls[i].pc = "awaiting"
    /\ LET c0 == calls[i]
           c1 == [c0 EXCEPT !.resps = Append(@, [kind |-> "failure"])]
           c == Advance(c1, HandlerReject(c0.tool, c0.args, Len(c0.reqs)))
       IN  /\ calls' = [calls EXCEPT ![i] = c]
           /\ sent' = sent \cup Wire(c)
    /\ UNCHANGED <<env, API_URL, BOT_TOKEN, okData, okOut>>

\* the outcome has gone back to the host: the invocation is over
Retire(i) ==
    /\ Settled(calls[i])
    /\ calls' = [calls EXCEPT ![i] = IdleCall]
    /\ UNCHANGED <<env, API_URL, BOT_TOKEN, sent, okData, okOut>>

Next ==
    \E i \in Ids :
        Reject(i) \/ Invoke(i) \/ Respond(i) \/ NetworkFailure(i) \/ Retire(i)

Spec == Init /\ [][Next]_vars

\* ok() on its own, over the probed JSON values
InitOk ==
    /\ env = [SOLAFON_API_URL |-> JUndef, SOLAFON_BOT_TOKEN |-> JUndef]
    /\ API_URL = ApiUrlOf(env)
    /\ BOT_TOKEN = BotTokenOf(env)
    /\ calls = [i \in Ids |-> IdleCall]
    /\ sent = {}
    /\ okData \in JsonValues
    /\ okOut = NotCalled

Wrap ==
    /\ okOut = NotCalled
    /\ okOut' = ok(okData)
    /\ UNCHANGED <<env, API_URL, BOT_TOKEN, calls, sent, okData>>

NextOk == Wrap

SpecOk == InitOk /\ [][NextOk]_vars

-----------------------------------------------------------------------------
(* Invocations in flight together: the host dispatches a tools/call while an
   earlier one is suspended at an await. apiCall suspends twice, at fetch() and
   at res.text(), and any other invocation may run at either point *)

\* the invocations in flight at one time
Slots == {1, 2}

\* the tools/call requests dispatched: every tool with arguments its schema
\* accepts, and set_webhook with two different argument sets
Dispatched ==
    { [tool |-> "set_webhook",
       raw |-> JObj(<<"url">>, <<JStr("https://example.com/hook")>>)],
      [tool |-> "set_webhook",
       raw |-> JObj(<<"url", "events">>,
                    <<JStr("https://example.com/hook"), JArr(<<JStr("message")>>)>>)],
      [tool |-> "set_welcome_message",
       raw |-> JObj(<<"text">>, <<JStr("Welcome")>>)],
      [tool |-> "get_bot_info", raw |-> EmptyObj],
      [tool |-> "send_message",
       raw |-> JObj(<<"conversationId", "text">>,
                    <<JStr("11111111-1111-1111-1111-111111111111"), JStr("hi")>>)],
      [tool |-> "edit_message",
       raw |-> JObj(<<"messageId", "text">>,
                    <<JStr("11111111-1111-1111-1111-111111111111"), JStr("hi")>>)],
      [tool |-> "delete_message",
       raw |-> JObj(<<"messageId">>, <<JStr("11111111-1111-1111-1111-111111111111")>>)],
      [tool |-> "list_conversations", raw |-> EmptyObj],
      [tool |-> "get_conversation_messages",
       raw |-> JObj(<<"conversationId">>,
                    <<JStr("11111111-1111-1111-1111-111111111111")>>)],
      [tool |-> "get_user",
       raw |-> JObj(<<"userId">>, <<JStr("11111111-1111-1111-1111-111111111111")>>)],
      [tool |-> "get_wallet_balance", raw |-> JObj(<<"address">>, <<JStr("7xKXtg2C")>>)],
      [tool |-> "get_token_list", raw |-> EmptyObj],
      [tool |-> "get_token_prices", raw |-> EmptyObj],
      [tool |-> "get_transaction_history",
       raw |-> JObj(<<"address">>, <<JStr("7xKXtg2C")>>)],
      [tool |-> "get_transaction_status",
       raw |-> JObj(<<"signature">>, <<JStr("5sig")>>)],
      [tool |-> "get_latest_blockhash", raw |-> EmptyObj],
      [tool |-> "send_transaction",
       raw |-> JObj(<<"signedTransaction">>, <<JStr("AQID")>>)],
      [tool |-> "simulate_transaction",
       raw |-> JObj(<<"transaction">>, <<JStr("AQID")>>)] }

\* the downstream's answers: two different ids, a body without an id, the JSON
\* null, and a body that is not JSON
Answers ==
    { [kind |-> "response", status |-> 200,
       text |-> JSONstringify(JObj(<<"id", "name">>, <<JStr("app-1"), JStr("Echo")>>), 0)],
      [kind |-> "response", status |-> 200,
       text |-> JSONstringify(JObj(<<"id">>, <<JNum(7)>>), 2)],
      [kind |-> "response", status |-> 404,
       text |-> JSONstringify(JObj(<<"error">>, <<JStr("unauthorized")>>), 0)],
      [kind |-> "response", status |-> 200, text |-> JSONstringify(JNull, 0)],
      [kind |-> "response", status |-> 500, text |-> << Junk("Bad Gateway") >>] }

InitCalls ==
    /\ env = [SOLAFON_API_URL |-> JUndef, SOLAFON_BOT_TOKEN |-> JStr("bot-token-1")]
    /\ API_URL = ApiUrlOf(env)
    /\ BOT_TOKEN = BotTokenOf(env)
    /\ calls = [i \in Slots |-> IdleCall]
    /\ sent = {}
    /\ okData = JUndef
    /\ okOut = NotCalled

\* mutant: res is kept in one module-level variable, so res.text() reads whichever
\* response is waiting to be read first
ResShared(cs, i) ==
    LET first == CHOOSE j \in DOMAIN cs :
                    /\ cs[j].pc = "reading"
                    /\ \A k \in DOMAIN cs : cs[k].pc = "reading" => j <= k
    IN  cs[first].resps[Len(cs[first].resps)]

\* const res = await fetch(...): a local of this activation of apiCall
Res(cs, i) == cs[i].resps[Len(cs[i].resps)]

\* a tools/call arrives and its handler runs to its first await
Dispatch(i) ==
    /\ calls[i].pc = "idle"
    /\ \E d \in Dispatched :
          /\ Validates(d.tool, d.raw)
          /\ LET args == ParseArgs(d.tool, d.raw)
                 c == Advance([IdleCall EXCEPT !.tool = d.tool, !.raw = d.raw,
                                               !.args = args],
                              HandlerStart(d.tool, args))
             IN  /\ calls' = [calls EXCEPT ![i] = c]
                 /\ sent' = sent \cup Wire(c)
    /\ UNCHANGED <<env, API_URL, BOT_TOKEN, okData, okOut>>

\* await fetch(...) resolves: the response's head is in, its body is still to read
FetchResolves(i) ==
    /\ calls[i].pc = "awaiting"
    /\ \E r \in Answers :
          calls' = [calls EXCEPT ![i].pc = "reading", ![i].resps = Append(@, r)]
    /\ UNCHANGED <<env, API_URL, BOT_TOKEN, sent, okData, okOut>>

\* await res.text() resolves: apiCall returns and the handler runs on to its next
\* await, its return or its throw
TextResolves(i) ==
    /\ calls[i].pc = "reading"
    /\ LET c0 == calls[i]
           res == Res(calls, i)
           c == Advance(c0, HandlerResume(c0.tool, c0.args, Len(c0.reqs),
                                          apiCallResult(res.status, res.text)))
       IN  /\ calls' = [calls EXCEPT ![i] = c]
           /\ sent' = sent \cup Wire(c)
    /\ UNCHANGED <<env, API_URL, BOT_TOKEN, okData, okOut>>

\* await fetch(...) rejects
FetchRejects(i) ==
    /\ calls[i].pc = "awaiting"
    /\ LET c0 == calls[i]
           c1 == [c0 EXCEPT !.resps = Append(@, [kind |-> "failure"])]
       IN  calls' = [calls EXCEPT ![i] =
                        Advance(c1, HandlerReject(c0.tool, c0.args, Len(c0.reqs)))]
    /\ UNCHANGED <<env, API_URL, BOT_TOKEN, sent, okData, okOut>>

\* await res.text() rejects: the connection broke while the body was read, after
\* the head and its status had arrived
TextRejects(i) ==
    /\ calls[i].pc = "reading"
    /\ LET c0 == calls[i]
           c1 == [c0 EXCEPT !.resps[Len(c0.resps)] =
                               [kind |-> "failure", status |-> Res(calls, i).status]]
       IN  calls' = [calls EXCEPT ![i] =
                        Advance(c1, HandlerReject(c0.tool, c0.args, Len(c0.reqs)))]
    /\ UNCHANGED <<env, API_URL, BOT_TOKEN, sent, okData, okOut>>

NextCalls ==
    \E i \in Slots :
        \/ Dispatch(i)
        \/ FetchResolves(i)
        \/ TextResolves(i)
        \/ FetchRejects(i)
        \/ TextRejects(i)

SpecCalls == InitCalls /\ [][NextCalls]_vars

\* one invocation on its own
InitCall ==
    /\ env \in EnvChoices
    /\ API_URL = ApiUrlOf(env)
    /\ BOT_TOKEN = BotTokenOf(env)
    /\ calls = [i \in Ids |-> IdleCall]
    /\ sent = {}
    /\ okData = JUndef
    /\ okOut = NotCalled

\* every outbound call settles: fetch() resolves or rejects, and so does res.text()
FetchSettles(i) == FetchRejects(i) \/ FetchResolves(i)
TextSettles(i) == TextRejects(i) \/ TextResolves(i)

NextCall ==
    \E i \in Ids :
        \/ Dispatch(i)
        \/ FetchResolves(i)
        \/ TextResolves(i)
        \/ FetchRejects(i)
        \/ TextRejects(i)

SpecSettling ==
    /\ InitCall
    /\ [][NextCall]_vars
    /\ \A i \in Ids : WF_vars(FetchSettles(i)) /\ WF_vars(TextSettles(i))

-----------------------------------------------------------------------------
(* Vocabulary of the properties *)

Supplied(raw, key) == Prop(raw, key).t # "undefined"

Started(c) == c.pc \in {"awaiting", "returned", "threw"}

\* the value of query parameter key in a request, as a set of at most one string
QueryValue(req, key) ==
    {req.search[j].v : j \in {n \in 1..Len(req.search) : req.search[n].k = key}}

\* the value an envelope carries: one text block, parsed as JSON
EnvelopeCarries(envelope, v) ==
    /\ Len(envelope.content) = 1
    /\ envelope.content[1].type = "text"
    /\ JSONparse(envelope.content[1].text) = [ok |-> TRUE, val |-> v]

\* an envelope wrapping {error: <string>}
IsErrorEnvelope(envelope) ==
    /\ Len(envelope.content) = 1
    /\ envelope.content[1].type = "text"
    /\ LET p == JSONparse(envelope.content[1].text)
       IN  /\ p.ok
           /\ p.val.t = "object"
           /\ p.val.k = <<"error">>
           /\ p.val.v[1].t = "string"

\* what the gateway hands back for response r, said from the claim's side: the
\* parsed JSON value, or {status, body} when the body is not JSON
Parses(r) == JSONparse(r.text).ok
Handed(r) ==
    IF Parses(r) THEN JSONparse(r.text).val
    ELSE JObj(<<"status", "body">>, <<JNum(r.status), JStr(TextString(r.text))>>)

-----------------------------------------------------------------------------
(* C1 *)

\* C1 (as claimed): for set_webhook and set_welcome_message, whatever GET /api/bot/me
\* returns, if it carries no truthy id the invocation returns an envelope wrapping
\* {error: <string>} and has issued no PUT.
C1_MissingIdIsErrorEnvelope ==
    \A i \in DOMAIN calls :
        LET c == calls[i]
        IN  ( /\ c.tool \in TwoStep
              /\ Len(c.resps) >= 1
              /\ c.resps[1].kind = "response"
              /\ ~Truthy(Prop(Handed(c.resps[1]), "id")) )
            => /\ c.pc = "returned"
               /\ c.outcome.kind = "envelope"
               /\ IsErrorEnvelope(c.outcome.envelope)
               /\ Len(c.reqs) = 1
               /\ c.reqs[1].method = "GET"

-----------------------------------------------------------------------------
(* C2 *)

\* what the rest of the arguments must be for the call to be valid without a limit
ValidButForLimit(tool, raw) ==
    CASE tool = "list_conversations" ->
            ~Supplied(raw, "offset") \/ Prop(raw, "offset").n >= 0
      [] tool = "get_transaction_history" ->
            /\ Prop(raw, "address").t = "string"
            /\ Prop(raw, "before").t \in {"undefined", "string"}
      [] OTHER -> FALSE

LimitSentWhenOmitted(tool, n) ==
    \A i \in DOMAIN calls :
        LET c == calls[i]
        IN  ( /\ c.tool = tool
              /\ c.pc # "idle"
              /\ ~Supplied(c.raw, "limit")
              /\ ValidButForLimit(tool, c.raw) )
            => /\ Started(c)
               /\ QueryValue(c.reqs[1], "limit") = {NumToString(n)}

\* C2 (as claimed): with limit omitted the request carries limit=20 for
\* list_conversations and limit=50 for get_transaction_history, and the omission is
\* not an error.
C2_DefaultLimits20And50 ==
    /\ LimitSentWhenOmitted("list_conversations", 20)
    /\ LimitSentWhenOmitted("get_transaction_history", 50)

\* C2 (amended): with limit omitted the request carries limit=20 for
\* list_conversations and limit=20 for get_transaction_history, and the omission is
\* not an error.
C2_DefaultLimits20And20 ==
    /\ LimitSentWhenOmitted("list_conversations", 20)
    /\ LimitSentWhenOmitted("get_transaction_history", 20)

\* a get_transaction_history call without a limit has put limit=20 on the wire
C2_Witness ==
    \E i \in DOMAIN calls :
        /\ calls[i].tool = "get_transaction_history"
        /\ calls[i].pc = "awaiting"
        /\ ~Supplied(calls[i].raw, "limit")
        /\ QueryValue(calls[i].reqs[1], "limit") = {"20"}

-----------------------------------------------------------------------------
(* C3 *)

RequiredFields(tool) ==
    CASE tool = "send_message" -> {"conversationId"}
      [] tool \in {"edit_message", "delete_message"} -> {"messageId"}
      [] tool = "get_conversation_messages" -> {"conversationId"}
      [] tool = "get_user" -> {"userId"}
      [] tool = "set_webhook" -> {"url"}
      [] tool = "set_welcome_message" -> {"text"}
      [] tool \in {"get_wallet_balance", "get_transaction_history"} -> {"address"}
      [] tool = "get_transaction_status" -> {"signature"}
      [] tool = "send_transaction" -> {"signedTransaction"}
      [] tool = "simulate_transaction" -> {"transaction"}
      [] OTHER -> {}

UuidFields(tool) ==
    CASE tool = "send_message" -> {"conversationId"}
      [] tool \in {"edit_message", "delete_message"} -> {"messageId"}
      [] tool = "get_conversation_messages" -> {"conversationId", "before"}
      [] tool = "get_user" -> {"userId"}
      [] OTHER -> {}

UrlFields(tool) ==
    CASE tool = "send_message" -> {"imageUrl"}
      [] tool = "set_webhook" -> {"url"}
      [] OTHER -> {}

BadAction(buttons) ==
    /\ buttons.t = "array"
    /\ \E j \in 1..Len(buttons.a) : Prop(buttons.a[j], "action") \notin {JStr(a) : a \in Actions}

OutsideRange(v, lo, hi) == v.t = "number" /\ (v.n < lo \/ v.n > hi)

\* the violations the claim lists
ViolatesSchema(tool, raw) ==
    \/ \E f \in RequiredFields(tool) : ~Supplied(raw, f)
    \/ \E f \in UuidFields(tool) : Supplied(raw, f) /\ Prop(raw, f).s \notin UUIDs
    \/ \E f \in UrlFields(tool) : Supplied(raw, f) /\ Prop(raw, f).s \notin URLs
    \/ /\ tool \in {"send_message", "edit_message"}
       /\ Supplied(raw, "type")
       /\ Prop(raw, "type") \notin {JStr(m) : m \in MessageTypes}
    \/ /\ tool \in {"send_message", "edit_message", "set_welcome_message"}
       /\ BadAction(Prop(raw, "buttons"))
    \/ tool = "list_conversations" /\ OutsideRange(Prop(raw, "limit"), 1, 100)
    \/ tool = "get_transaction_history" /\ OutsideRange(Prop(raw, "limit"), 1, 50)

\* C3: an invocation whose arguments violate the tool's schema (missing required
\* field, non-UUID or non-URL format, enum value outside the set, limit outside
\* [1,100] for list_conversations or [1,50] for get_transaction_history) is rejected
\* before the handler runs: an invocation-level error, no envelope, no request.
C3_InvalidArgumentsRejected ==
    \A i \in DOMAIN calls :
        LET c == calls[i]
        IN  (c.pc # "idle" /\ ViolatesSchema(c.tool, c.raw))
            => /\ c.pc = "rejected"
               /\ c.outcome = [kind |-> "invalid"]
               /\ c.reqs = <<>>

\* list_conversations with limit 101 has been rejected
C3_Witness ==
    \E i \in DOMAIN calls :
        /\ calls[i].tool = "list_conversations"
        /\ Prop(calls[i].raw, "limit") = JNum(101)
        /\ calls[i].pc = "rejected"
        /\ calls[i].reqs = <<>>

-----------------------------------------------------------------------------
(* C4 *)

HasKey(o, key) == o.t = "object" /\ IndexOf(o.k, key) # 0

MessageTools == {"send_message", "edit_message"}

\* the content object in the body a message tool sent, read back from the body's text
SentContent(c) == Prop(JSONparse(c.reqs[1].body.text).val, "content")

ContentFields == {"text", "imageUrl", "buttons", "cards"}

\* C4 (as claimed): for send_message and edit_message the content sent always
\* contains type, contains each of text, imageUrl, buttons, cards iff that argument
\* was supplied and is truthy, and carries supplied buttons and cards unchanged.
C4_ContentIffSupplied ==
    \A i \in DOMAIN calls :
        LET c == calls[i]
        IN  (c.tool \in MessageTools /\ Started(c))
            => /\ c.reqs[1].body.present
               /\ LET content == SentContent(c)
                  IN  /\ HasKey(content, "type")
                      /\ \A f \in ContentFields :
                            HasKey(content, f) <=> Truthy(Prop(c.raw, f))
                      /\ \A f \in {"buttons", "cards"} :
                            HasKey(content, f) => Prop(content, f) = Prop(c.raw, f)

ButtonKeys == {"id", "text", "action", "payload", "url"}
CardKeys == {"id", "title", "subtitle", "imageUrl", "buttons"}

OnlyKeys(o, keys) == o.t = "object" /\ {o.k[n] : n \in 1..Len(o.k)} \subseteq keys
SameFields(o, v, keys) == \A key \in keys : Prop(o, key) = Prop(v, key)

\* out is the array in with, in each button, the declared keys unchanged and no other
SameButtons(out, in) ==
    /\ out.t = "array"
    /\ in.t = "array"
    /\ Len(out.a) = Len(in.a)
    /\ \A j \in 1..Len(out.a) :
          OnlyKeys(out.a[j], ButtonKeys) /\ SameFields(out.a[j], in.a[j], ButtonKeys)

\* the same of cards, whose buttons are compared as buttons
SameCards(out, in) ==
    /\ out.t = "array"
    /\ in.t = "array"
    /\ Len(out.a) = Len(in.a)
    /\ \A j \in 1..Len(out.a) :
          /\ OnlyKeys(out.a[j], CardKeys)
          /\ SameFields(out.a[j], in.a[j], CardKeys \ {"buttons"})
          /\ HasKey(out.a[j], "buttons") <=> HasKey(in.a[j], "buttons")
          /\ HasKey(out.a[j], "buttons")
                => SameButtons(Prop(out.a[j], "buttons"), Prop(in.a[j], "buttons"))

\* the content keys a message tool's schema declares as arguments
DeclaredContent(tool) ==
    IF tool = "send_message" THEN ContentFields ELSE {"text", "buttons"}

\* C4 (amended): for send_message the content sent always contains type (the one
\* supplied, "text" when omitted) and contains each of text, imageUrl, buttons, cards
\* iff that argument was supplied and is truthy; for edit_message it contains type
\* and each of text, buttons iff supplied and truthy, and never imageUrl or cards,
\* which it does not declare and drops when supplied. Supplied buttons and cards go
\* through with every declared field unchanged and undeclared fields dropped.
C4_ContentIffDeclaredAndSupplied ==
    \A i \in DOMAIN calls :
        LET c == calls[i]
        IN  (c.tool \in MessageTools /\ Started(c))
            => /\ c.reqs[1].body.present
               /\ LET content == SentContent(c)
                  IN  /\ Prop(content, "type")
                            = (IF Supplied(c.raw, "type") THEN Prop(c.raw, "type")
                               ELSE JStr("text"))
                      /\ \A f \in DeclaredContent(c.tool) :
                            HasKey(content, f) <=> Truthy(Prop(c.raw, f))
                      /\ \A f \in ContentFields \ DeclaredContent(c.tool) :
                            ~HasKey(content, f)
                      /\ \A f \in {"text", "imageUrl"} :
                            HasKey(content, f) => Prop(content, f) = Prop(c.raw, f)
                      /\ HasKey(content, "buttons")
                            => SameButtons(Prop(content, "buttons"), Prop(c.raw, "buttons"))
                      /\ HasKey(content, "cards")
                            => SameCards(Prop(content, "cards"), Prop(c.raw, "cards"))

\* edit_message was given an imageUrl and a button with an undeclared key, and an
\* empty text: the content sent has the button without that key and nothing else
C4_Witness ==
    \E i \in DOMAIN calls :
        /\ calls[i].tool = "edit_message"
        /\ calls[i].pc = "awaiting"
        /\ Truthy(Prop(calls[i].raw, "imageUrl"))
        /\ Prop(calls[i].raw, "text") = JStr("")
        /\ Prop(calls[i].raw, "buttons") = JArr(<<StyledButton>>)
        /\ SentContent(calls[i]).k = <<"type", "buttons">>

-----------------------------------------------------------------------------
(* C5 *)

ArgString(v) == IF v.t = "number" THEN NumToString(v.n) ELSE v.s

\* the catalog: verb and path of each tool's request (the mutating request of a
\* two-step tool, addressed by `id`)
DocumentedRoute(tool, raw, id) ==
    CASE tool = "get_bot_info" -> <<"GET", "/api/bot/me">>
      [] tool = "send_message" -> <<"POST", "/api/bot/messages">>
      [] tool = "edit_message" ->
            <<"PATCH", "/api/bot/messages/" \o Prop(raw, "messageId").s>>
      [] tool = "delete_message" ->
            <<"DELETE", "/api/bot/messages/" \o Prop(raw, "messageId").s>>
      [] tool = "list_conversations" -> <<"GET", "/api/bot/conversations">>
      [] tool = "get_conversation_messages" ->
            <<"GET", "/api/bot/conversations/" \o Prop(raw, "conversationId").s
                         \o "/messages">>
      [] tool = "get_user" -> <<"GET", "/api/bot/users/" \o Prop(raw, "userId").s>>
      [] tool = "set_webhook" -> <<"PUT", "/api/developer/apps/" \o id \o "/webhook">>
      [] tool = "set_welcome_message" ->
            <<"PUT", "/api/developer/apps/" \o id \o "/welcome-message">>
      [] tool = "get_wallet_balance" -> <<"GET", "/api/wallet/balance">>
      [] tool = "get_token_list" -> <<"GET", "/api/wallet/tokens">>
      [] tool = "get_token_prices" -> <<"GET", "/api/wallet/prices">>
      [] tool = "get_transaction_history" -> <<"GET", "/api/wallet/transactions">>
      [] tool = "get_transaction_status" -> <<"GET", "/api/wallet/status">>
      [] tool = "get_latest_blockhash" -> <<"GET", "/api/wallet/blockhash">>
      [] tool = "send_transaction" -> <<"POST", "/api/wallet/send">>
      [] OTHER -> <<"POST", "/api/wallet/simulate">>

\* the catalog's query parameters
DocumentedQuery(tool) ==
    CASE tool = "list_conversations" -> {"limit", "offset"}
      [] tool = "get_conversation_messages" -> {"limit", "before"}
      [] tool = "get_wallet_balance" -> {"address"}
      [] tool = "get_token_prices" -> {"mints"}
      [] tool = "get_transaction_history" -> {"address", "limit", "before"}
      [] tool = "get_transaction_status" -> {"signature"}
      [] OTHER -> {}

\* the non-empty supplied values
SuppliedQuery(tool, raw) ==
    { <<key, ArgString(Prop(raw, key))>> :
        key \in {q \in DocumentedQuery(tool) :
                    Supplied(raw, q) /\ ArgString(Prop(raw, q)) # ""} }

\* what an omitted query argument is replaced by ("" : by nothing)
QueryDefault(tool, key) ==
    CASE key = "limit" -> (IF tool = "get_conversation_messages" THEN "50" ELSE "20")
      [] key = "offset" -> "0"
      [] key = "mints" -> "all"
      [] OTHER -> ""

QueryAfterDefaults(tool, raw, key) ==
    IF Supplied(raw, key) /\ ArgString(Prop(raw, key)) # ""
    THEN ArgString(Prop(raw, key))
    ELSE IF Supplied(raw, key) /\ key # "mints" THEN ""
    ELSE QueryDefault(tool, key)

DefaultedQuery(tool, raw) ==
    { <<key, QueryAfterDefaults(tool, raw, key)>> :
        key \in {q \in DocumentedQuery(tool) : QueryAfterDefaults(tool, raw, q) # ""} }

SentQuery(req) == {<<req.search[j].k, req.search[j].v>> : j \in 1..Len(req.search)}

\* every request of call c has the documented verb and path, and the query
\* parameters of a single-step tool's request are the pairs `expected`
RequestsAsDocumented(c, expected) ==
    LET n == Len(c.reqs)
        last == c.reqs[n]
    IN  /\ c.tool \in TwoStep
           => /\ <<c.reqs[1].method, c.reqs[1].path>> = <<"GET", "/api/bot/me">>
              /\ c.reqs[1].search = <<>>
              /\ n = 2 =>
                    /\ <<last.method, last.path>>
                          = DocumentedRoute(c.tool, c.raw,
                                            StringOf(Prop(Handed(c.resps[1]), "id")))
                    /\ last.search = <<>>
        /\ c.tool \notin TwoStep
           => /\ <<last.method, last.path>> = DocumentedRoute(c.tool, c.raw, "")
              /\ SentQuery(last) = expected
              /\ Len(last.search) = Cardinality(SentQuery(last))

\* C5 (as claimed): every request has the documented method and path, and its query
\* parameters are exactly the non-empty supplied values: an empty string is omitted
\* and no parameter is sent that was not supplied.
C5_QueryIsSuppliedValues ==
    \A i \in DOMAIN calls :
        Started(calls[i])
            => RequestsAsDocumented(calls[i], SuppliedQuery(calls[i].tool, calls[i].raw))

\* C5 (amended): every request has the documented method and path, and its query
\* parameters are exactly the non-empty values of the tool's query arguments after
\* the schema's defaults: an omitted limit or offset is sent with its default (limit
\* 20 for list_conversations and get_transaction_history, 50 for
\* get_conversation_messages, offset 0), get_token_prices sends mints=all when mints
\* is omitted or empty, and any other parameter that is omitted or the empty string
\* is left out, never sent as key=.
C5_QueryIsDefaultedValues ==
    \A i \in DOMAIN calls :
        Started(calls[i])
            => RequestsAsDocumented(calls[i], DefaultedQuery(calls[i].tool, calls[i].raw))

\* get_transaction_history with an empty address, no limit and a cursor has sent
\* exactly limit=20 and before
C5_Witness ==
    \E i \in DOMAIN calls :
        /\ calls[i].tool = "get_transaction_history"
        /\ calls[i].pc = "awaiting"
        /\ Prop(calls[i].raw, "address") = JStr("")
        /\ ~Supplied(calls[i].raw, "limit")
        /\ SentQuery(calls[i].reqs[1]) = {<<"limit", "20">>, <<"before", "5sig">>}

-----------------------------------------------------------------------------
(* C6 *)

LastResponse(c) == c.resps[Len(c.resps)]

\* the response that came in is the identity lookup of a two-step tool
IsLookup(c) == c.tool \in TwoStep /\ Len(c.resps) = 1

\* C6 (as claimed): whatever the status, a response whose body parses as JSON is
\* never raised as an invocation failure, and a tool that returns on it returns an
\* envelope containing the parsed value (the identity lookup of a two-step tool:
\* the synthesized {error} payload).
C6_JsonBodyIsNeverAFailure ==
    \A i \in DOMAIN calls :
        LET c == calls[i]
        IN  ( /\ Len(c.resps) >= 1
              /\ LastResponse(c).kind = "response"
              /\ Parses(LastResponse(c)) )
            => /\ c.pc # "threw"
               /\ c.pc = "returned"
                  => /\ c.outcome.kind = "envelope"
                     /\ \/ EnvelopeCarries(c.outcome.envelope, Handed(LastResponse(c)))
                        \/ IsLookup(c) /\ IsErrorEnvelope(c.outcome.envelope)

-----------------------------------------------------------------------------
(* C7 *)

StatusAndBody(r) ==
    JObj(<<"status", "body">>, <<JNum(r.status), JStr(TextString(r.text))>>)

ReturnedStatusAndBody(c) ==
    /\ c.pc = "returned"
    /\ c.outcome.kind = "envelope"
    /\ EnvelopeCarries(c.outcome.envelope, StatusAndBody(LastResponse(c)))

NonJsonResponse(c) ==
    /\ Len(c.resps) >= 1
    /\ LastResponse(c).kind = "response"
    /\ ~Parses(LastResponse(c))

\* C7 (as claimed): for every response whose body fails JSON parsing the tool
\* returns an envelope wrapping {status, body}, status the HTTP status code and body
\* the raw text; the parse failure is not an invocation failure.
C7_NonJsonIsStatusAndBody ==
    \A i \in DOMAIN calls :
        NonJsonResponse(calls[i]) => ReturnedStatusAndBody(calls[i])

\* C7 (amended): for every response whose body fails JSON parsing, a single-step
\* tool, and a two-step tool on the response to its PUT, returns an envelope
\* wrapping {status, body}, status the HTTP status code and body the raw text; on
\* the identity lookup of set_webhook and set_welcome_message the tool returns the
\* {error} envelope instead and issues no PUT. In no case is the parse failure an
\* invocation failure.
C7_NonJsonIsStatusAndBodyButLookup ==
    \A i \in DOMAIN calls :
        LET c == calls[i]
        IN  NonJsonResponse(c)
            => IF IsLookup(c)
               THEN /\ c.pc = "returned"
                    /\ c.outcome.kind = "envelope"
                    /\ IsErrorEnvelope(c.outcome.envelope)
                    /\ Len(c.reqs) = 1
               ELSE ReturnedStatusAndBody(c)

\* a PUT of set_webhook was answered 500 with a body that is not JSON, and the
\* tool returned
C7_Witness ==
    \E i \in DOMAIN calls :
        /\ calls[i].tool = "set_webhook"
        /\ Len(calls[i].resps) = 2
        /\ LastResponse(calls[i]) =
              [kind |-> "response", status |-> 500, text |-> <<Junk("Bad Gateway")>>]
        /\ calls[i].pc = "returned"

-----------------------------------------------------------------------------
(* C8 *)

\* C8: the envelope ok(v) of a JSON value v has exactly one content block, of type
\* text, and parsing that block's text as JSON gives back v.
C8_EnvelopeRoundTrip ==
    okOut # NotCalled
        => /\ Len(okOut.content) = 1
           /\ okOut.content[1].type = "text"
           /\ JSONparse(okOut.content[1].text) = [ok |-> TRUE, val |-> okData]

\* ok() has wrapped an object holding an array of two strings
C8_Witness ==
    /\ okOut # NotCalled
    /\ okData = JObj(<<"status", "body">>, <<JNum(200), JArr(<<JStr("null"), JStr("")>>)>>)

-----------------------------------------------------------------------------
(* C9 *)

TokenConfigured == env.SOLAFON_BOT_TOKEN.t = "string" /\ env.SOLAFON_BOT_TOKEN.s # ""
ConfiguredBase ==
    IF env.SOLAFON_API_URL.t = "string" /\ env.SOLAFON_API_URL.s # ""
    THEN env.SOLAFON_API_URL.s
    ELSE "https://api.solafon.com"

\* C9: every request, of every tool and of both steps of a two-step tool, carries
\* the content-type header, and the bot-token header iff a non-empty token was
\* configured at startup; token and base URL are the same for all the requests of
\* the process.
C9_HeadersAndConfiguration ==
    /\ \A i \in DOMAIN calls : \A j \in 1..Len(calls[i].reqs) :
          LET req == calls[i].reqs[j]
          IN  /\ "Content-Type" \in DOMAIN req.headers
              /\ req.headers["Content-Type"] = "application/json"
              /\ "X-Bot-Token" \in DOMAIN req.headers <=> TokenConfigured
              /\ TokenConfigured => req.headers["X-Bot-Token"] = env.SOLAFON_BOT_TOKEN.s
              /\ req.base = ConfiguredBase
              /\ [base |-> req.base, headers |-> req.headers] \in sent
    /\ Cardinality(sent) <= 1

\* with SOLAFON_BOT_TOKEN set to the empty string, a two-step tool has issued its
\* GET and its PUT, both without the token header
C9_Witness ==
    /\ env.SOLAFON_BOT_TOKEN = JStr("")
    /\ \E i \in DOMAIN calls :
          /\ Len(calls[i].reqs) = 2
          /\ \A j \in 1..2 : DOMAIN calls[i].reqs[j].headers = {"Content-Type"}

-----------------------------------------------------------------------------
(* C10 *)

StepsOf(tool) == IF tool \in TwoStep THEN <<"GET", "PUT">> ELSE <<>>

\* C10: a network-level failure of an outbound call makes the invocation fail
\* without an envelope and is never retried: an invocation issues at most one
\* request per step (one for a single-step tool; at most one GET, then at most one
\* PUT, for set_webhook and set_welcome_message), and no PUT after a failed GET.
C10_NetworkFailureFailsOnce ==
    \A i \in DOMAIN calls :
        LET c == calls[i]
        IN  /\ Len(c.reqs) <= (IF c.tool \in TwoStep THEN 2 ELSE 1)
            /\ Len(c.reqs) <= Len(c.resps) + 1
            /\ c.tool \in TwoStep
               => \A j \in 1..Len(c.reqs) : c.reqs[j].method = StepsOf(c.tool)[j]
            /\ \A j \in 1..Len(c.resps) :
                  c.resps[j].kind = "failure"
                  => /\ j = Len(c.resps)
                     /\ Len(c.reqs) = j
                     /\ c.pc = "threw"
                     /\ c.outcome = [kind |-> "throw", error |-> "fetch failed"]

\* the identity lookup of set_welcome_message failed at network level: the
\* invocation threw with the GET as its only request
C10_Witness ==
    \E i \in DOMAIN calls :
        /\ calls[i].tool = "set_welcome_message"
        /\ calls[i].resps = <<[kind |-> "failure"]>>
        /\ calls[i].pc = "threw"
        /\ Len(calls[i].reqs) = 1

-----------------------------------------------------------------------------
(* C11 *)

\* the path a two-step tool's PUT has when it is addressed by id
AddressedBy(tool, id) ==
    "/api/developer/apps/" \o StringOf(id)
        \o (IF tool = "set_webhook" THEN "/webhook" ELSE "/welcome-message")

\* the payload of a two-step tool's PUT, from the invocation's own arguments
OwnPayload(c) ==
    IF c.tool = "set_webhook"
    THEN IF Supplied(c.raw, "events")
         THEN JObj(<<"url", "events">>, <<Prop(c.raw, "url"), Prop(c.raw, "events")>>)
         ELSE JObj(<<"url">>, <<Prop(c.raw, "url")>>)
    ELSE JObj(<<"content">>,
              <<JObj(<<"type", "text">>, <<JStr("text"), Prop(c.raw, "text")>>)>>)

\* the PUT of invocation c follows c's own completed lookup and carries the id
\* that lookup returned to c
PutFollowsOwnLookup(c) ==
    /\ c.reqs[1].method = "GET"
    /\ c.reqs[1].path = "/api/bot/me"
    /\ Len(c.resps) >= 1
    /\ c.resps[1].kind = "response"
    /\ c.reqs[2].method = "PUT"
    /\ c.reqs[2].path = AddressedBy(c.tool, Prop(Handed(c.resps[1]), "id"))
    /\ c.reqs[2].body.present
    /\ JSONparse(c.reqs[2].body.text) = [ok |-> TRUE, val |-> OwnPayload(c)]

\* the envelope of invocation c is the one its own responses give
EnvelopeIsOwn(c) ==
    /\ c.outcome.kind = "envelope"
    /\ IF c.tool \in TwoStep /\ Len(c.resps) = 1
       THEN IsErrorEnvelope(c.outcome.envelope)
       ELSE EnvelopeCarries(c.outcome.envelope, Handed(c.resps[Len(c.resps)]))

-----------------------------------------------------------------------------
(* C12 *)

Pending(c) == c.pc \in {"awaiting", "reading"}

\* one result envelope: an object whose content is a list of text blocks
IsEnvelope(e) ==
    /\ "content" \in DOMAIN e
    /\ Len(e.content) >= 1
    /\ \A j \in 1..Len(e.content) : e.content[j].type = "text"

\* the outcome of a handler that ran: none while it is suspended, an envelope when
\* it returned, a failure when it threw
OutcomeIsOne(c) ==
    /\ Pending(c) => c.outcome = [kind |-> "none"]
    /\ c.pc = "returned"
       => /\ DOMAIN c.outcome = {"kind", "envelope"}
          /\ c.outcome.kind = "envelope"
          /\ IsEnvelope(c.outcome.envelope)
    /\ c.pc = "threw"
       => /\ DOMAIN c.outcome = {"kind", "error"}
          /\ c.outcome.kind = "throw"

\* an outcome, once reached, stays until the invocation is over
OutcomeIsFinal ==
    \A i \in DOMAIN calls :
        (Started(calls[i]) /\ ~Pending(calls[i]))
            => calls'[i] = calls[i] \/ calls'[i] = IdleCall

\* a suspended handler goes on only when its outbound call resolves or fails:
\* nothing else (no timeout, no cancellation) ends the wait
OnlySettlingEndsTheWait ==
    \A i \in DOMAIN calls :
        (Pending(calls[i]) /\ calls'[i] # calls[i])
            => \/ /\ calls[i].pc = "awaiting"
                  /\ Len(calls'[i].resps) = Len(calls[i].resps) + 1
                  /\ calls'[i].pc \in {"reading", "threw"}
               \/ /\ calls[i].pc = "reading"
                  /\ Len(calls'[i].resps) = Len(calls[i].resps)
                  /\ calls'[i].pc \in {"awaiting", "returned", "threw"}

\* C12: every schema-valid invocation ends in at most one outcome, one result
\* envelope or a thrown failure, never an undefined result and never both; if
\* every outbound call eventually resolves or fails, the invocation eventually
\* reaches its outcome; and a suspended invocation leaves its await only when its
\* outbound call resolves or fails, so one whose call never does stays pending.
C12_OneOutcomeEventually ==
    /\ [](\A i \in DOMAIN calls : OutcomeIsOne(calls[i]))
    /\ [][OutcomeIsFinal]_vars
    /\ [][OnlySettlingEndsTheWait]_vars
    /\ \A i \in Ids : Pending(calls[i]) ~> (Started(calls[i]) /\ ~Pending(calls[i]))

\* set_webhook went through both of its awaits and returned an envelope
C12_Witness ==
    \E i \in DOMAIN calls :
        /\ calls[i].tool = "set_webhook"
        /\ Len(calls[i].resps) = 2
        /\ calls[i].pc = "returned"
        /\ IsEnvelope(calls[i].outcome.envelope)

=============================================================================
